---- MODULE Spec2Model ----
(***************************************************************************)
(* A model of src/api.py: the PixivApi client.  The state is the session   *)
(* file on disk, the attributes of the one PixivApi object of the running  *)
(* process, the position of that process in __init__ / login_required /    *)
(* login / a query, the HTTP request it is blocked on, and the set of      *)
(* bearer tokens the remote service accepts at the moment.                 *)
(***************************************************************************)
EXTENDS Integers, Sequences, FiniteSets, TLC

(***************************************************************************)
(* Bounds of the model.                                                    *)
(***************************************************************************)
NumTokens == 2
NumCookies == 1
NumUsers == 1

(***************************************************************************)
(* Python values.                                                          *)
(***************************************************************************)
\* Python's None (the class defaults of session_id and access_token).
None == "<None>"

\* A key that a dict / JSON object / header map does not have.
Missing == "<missing>"

\* bool(v) of a value that is None or a str: `if self.access_token`, `if date`.
Truthy(v) == v \notin {None, ""}

Digits == <<"0", "1", "2", "3", "4", "5", "6", "7", "8", "9">>

\* str(n) of a non-negative int: the decimal numeral.
RECURSIVE str(_)
str(n) == IF n < 10 THEN Digits[n + 1] ELSE str(n \div 10) \o Digits[(n % 10) + 1]

\* '{}'.format(v) of a value that is None or a str.
format(v) == IF v = None THEN "None" ELSE v

(***************************************************************************)
(* The values the service and the user deal in.                            *)
(***************************************************************************)
Tokens == {"tok" \o str(i) : i \in 1..NumTokens}
Cookies == {"sid" \o str(i) : i \in 1..NumCookies}
UserNums == {41 + i : i \in 1..NumUsers}
Usernames == {"alice"}
Passwords == {"hunter2"}
Timeouts == {10, 30}
Dates == {"", "2015-04-01"}
Answers == {"y", "n", "Y", ""}

OkStatuses == {200, 301, 302}
Statuses == OkStatuses \cup {403, 500}

\* Every str the model ever holds in a credential field.
PyStrs == Tokens \cup Cookies \cup {str(n) : n \in UserNums} \cup {""}

(***************************************************************************)
(* JSON text of a value, and the value of a JSON text.                     *)
(***************************************************************************)
json_dumps(v) == IF v = None THEN "null" ELSE "\"" \o v \o "\""

json_loads(j) == IF j = "null" THEN None ELSE CHOOSE s \in PyStrs : json_dumps(s) = j

(***************************************************************************)
(* The session file.  kind "absent": no file; "empty": zero bytes;         *)
(* "truncated": a prefix of a JSON text; "nonjson": other text; "object":  *)
(* a JSON object, whose three fields hold the JSON text of the value of    *)
(* that key, or Missing.                                                   *)
(***************************************************************************)
FileOf(kind, a, u, s) == [kind |-> kind, access_token |-> a, user_id |-> u, session_id |-> s]

NoFile == FileOf("absent", Missing, Missing, Missing)
EmptyFile == FileOf("empty", Missing, Missing, Missing)

MalformedFiles == {FileOf(k, Missing, Missing, Missing) : k \in {"empty", "truncated", "nonjson"}}

ObjectFiles ==
    {FileOf("object", a, u, s) :
        a \in {Missing} \cup {json_dumps(t) : t \in Tokens},
        u \in {Missing} \cup {json_dumps(str(n)) : n \in UserNums},
        s \in {Missing} \cup {json_dumps(c) : c \in Cookies}}

Files == {NoFile} \cup MalformedFiles \cup ObjectFiles

\* The three Credential Record keys, in the order load_session reads them.
Keys == <<"access_token", "user_id", "session_id">>

\* bool(d) of what json.load returned: a dict is falsy exactly when it is empty.
DictTruthy(f) == f.kind = "object" /\ \E i \in 1..3 : f[Keys[i]] # Missing

(***************************************************************************)
(* The PixivApi object.                                                    *)
(***************************************************************************)
ClassDefaults ==
    [access_token |-> None, user_id |-> "", session_id |-> None,
     session |-> "", timeout |-> 10]

Record(obj) ==
    [access_token |-> obj.access_token, user_id |-> obj.user_id,
     session_id |-> obj.session_id]

NoRecord == [access_token |-> Missing, user_id |-> Missing, session_id |-> Missing]

\* A save_session that writes the user id under 'session_id' and the
\* session id under 'user_id'.
save_session_swapped(obj) ==
    FileOf("object", json_dumps(obj.access_token), json_dumps(obj.session_id),
           json_dumps(obj.user_id))

\* save_session: what `open('session', 'w')` leaves, then what json.dump and
\* the close of the file leave.
save_session_open(obj) == EmptyFile

save_session(obj) ==
    FileOf("object", json_dumps(obj.access_token), json_dumps(obj.user_id),
           json_dumps(obj.session_id))

\* load_session: json.load, then the three assignments in order; the first
\* exception ends the try block, and `finally: return loaded_session` swallows
\* it.  ret is the returned value ("None", or "dict" for the parsed object),
\* obj the object afterwards, truthy what `if self.load_session()` sees.
load_session(obj, f) ==
    IF f.kind # "object"
    THEN [ret |-> "None", truthy |-> FALSE, obj |-> obj, set |-> 0]
    ELSE LET n == IF f.access_token = Missing THEN 0
                  ELSE IF f.user_id = Missing THEN 1
                  ELSE IF f.session_id = Missing THEN 2 ELSE 3
             o1 == IF n >= 1 THEN [obj EXCEPT !.access_token = json_loads(f.access_token)] ELSE obj
             o2 == IF n >= 2 THEN [o1 EXCEPT !.user_id = json_loads(f.user_id)] ELSE o1
             o3 == IF n >= 3 THEN [o2 EXCEPT !.session_id = json_loads(f.session_id)] ELSE o2
         IN  [ret |-> "dict", truthy |-> DictTruthy(f), obj |-> o3, set |-> n]

(***************************************************************************)
(* Outbound requests.  params and data are sets of <<key, text>> pairs,    *)
(* the text being what the transport encodes the Python value as.          *)
(***************************************************************************)
User_Agent == "PixivIOSApp/5.8.3"
image_sizes == "px_128x128,px_480mw,small,medium,large"
profile_image_sizes == "px_170x170,px_50x50"

ProbeUrl == "https://public-api.secure.pixiv.net/v1/ios_magazine_banner.json"
AuthUrl == "https://oauth.secure.pixiv.net/auth/token"

NoReq ==
    [method |-> "", url |-> "", referer |-> "", user_agent |-> "",
     authorization |-> Missing, cookie |-> Missing, params |-> {}, data |-> {},
     timeout |-> 0]

\* A _request_pixiv that hands the form data over as query parameters.
_request_pixiv_data_as_params(obj, method, url, params, data) ==
    [method |-> method, url |-> url,
     referer |-> "http://www.pixiv.net/", user_agent |-> User_Agent,
     authorization |-> IF Truthy(obj.access_token)
                       THEN "Bearer " \o format(obj.access_token) ELSE Missing,
     cookie |-> IF Truthy(obj.access_token)
                THEN "PHPSESSID=" \o format(obj.session_id) ELSE Missing,
     params |-> params \cup data, data |-> {},
     timeout |-> obj.timeout]

\* _request_pixiv: the request handed to the transport.
_request_pixiv(obj, method, url, params, data) ==
    [method |-> method, url |-> url,
     referer |-> "http://www.pixiv.net/", user_agent |-> User_Agent,
     authorization |-> IF Truthy(obj.access_token)
                       THEN "Bearer " \o format(obj.access_token) ELSE Missing,
     cookie |-> IF Truthy(obj.access_token)
                THEN "PHPSESSID=" \o format(obj.session_id) ELSE Missing,
     params |-> params, data |-> data, timeout |-> obj.timeout]

\* _request_pixiv creates the transport session on first use.
with_session(obj) == IF Truthy(obj.session) THEN obj ELSE [obj EXCEPT !.session = "Session"]

\* The form body of the login POST.
login_data(username, password) ==
    {<<"username", username>>, <<"password", password>>, <<"grant_type", "password">>,
     <<"client_id", "bYGKuGVw91e0NMfPGp44euvGt59s">>,
     <<"client_secret", "HP3RmkgAmEGro0gn1x9ioawQE8WMfvLXDz3ZqxpK">>}

QueryOps == {"get_user_illustrations", "get_illustration", "get_ranking_illustrations"}

\* A call of the public interface: the operation and its one modelled
\* argument (the user id, the illustration id, the ranking date).
Calls ==
    {[op |-> "get_user_illustrations", arg |-> "11"],
     [op |-> "get_illustration", arg |-> "99"]}
    \cup {[op |-> "get_ranking_illustrations", arg |-> d] : d \in Dates}

NoCall == [op |-> "", arg |-> ""]
InitCall == [op |-> "__init__", arg |-> ""]
DirectCall == [op |-> "login_required", arg |-> ""]

get_user_illustrations(obj, user_id) ==
    _request_pixiv(obj, "GET",
        "https://public-api.secure.pixiv.net/v1/users/" \o format(user_id) \o "/works.json",
        {<<"page", str(1)>>, <<"per_page", str(9999)>>, <<"include_stats", "True">>,
         <<"include_sanity_level", "True">>, <<"image_sizes", image_sizes>>,
         <<"profile_image_sizes", profile_image_sizes>>},
        {})

get_illustration(obj, illustration_id) ==
    _request_pixiv(obj, "GET",
        "https://public-api.secure.pixiv.net/v1/works/" \o format(illustration_id) \o ".json",
        {<<"profile_image_sizes", profile_image_sizes>>, <<"image_sizes", image_sizes>>,
         <<"include_stats", "true">>, <<"include_sanity_level", "True">>},
        {})

\* A get_ranking_illustrations that sends the date parameter always.
get_ranking_illustrations_always_date(obj, date) ==
    _request_pixiv(obj, "GET", "https://public-api.secure.pixiv.net/v1/ranking/all",
        {<<"mode", "daily">>, <<"page", str(1)>>, <<"per_page", str(100)>>,
         <<"include_stats", "True">>, <<"include_sanity_level", "True">>,
         <<"image_sizes", image_sizes>>, <<"profile_image_sizes", profile_image_sizes>>,
         <<"date", date>>},
        {})

get_ranking_illustrations(obj, date) ==
    _request_pixiv(obj, "GET", "https://public-api.secure.pixiv.net/v1/ranking/all",
        {<<"mode", "daily">>, <<"page", str(1)>>, <<"per_page", str(100)>>,
         <<"include_stats", "True">>, <<"include_sanity_level", "True">>,
         <<"image_sizes", image_sizes>>, <<"profile_image_sizes", profile_image_sizes>>}
        \cup (IF Truthy(date) THEN {<<"date", date>>} ELSE {}),
        {})

\* The GET a query operation issues after its login_required has returned.
QueryRequest(obj, c) ==
    IF c.op = "get_user_illustrations" THEN get_user_illustrations(obj, c.arg)
    ELSE IF c.op = "get_illustration" THEN get_illustration(obj, c.arg)
    ELSE get_ranking_illustrations(obj, c.arg)

(***************************************************************************)
(* Responses.  A GET answers with a status and a body that is unparseable  *)
(* text or a JSON object with or without the keys status and response.     *)
(***************************************************************************)
Bodies ==
    {[text |-> "json", status |-> s, response |-> p] :
        s \in {"success", "failure", Missing}, p \in {"payload", Missing}}
    \cup {[text |-> "garbage", status |-> Missing, response |-> Missing]}

\* The body of an answer of the auth endpoint: unparseable, or JSON with or
\* without response.access_token and response.user.id.
AuthBodies ==
    {[text |-> "json", access_token |-> t, id |-> n] :
        t \in Tokens \cup {Missing}, n \in UserNums \cup {0}}
    \cup {[text |-> "garbage", access_token |-> Missing, id |-> 0]}

\* The Set-Cookie header of an answer: absent, or its text cut into pieces.
SetCookies ==
    {[present |-> TRUE, value |-> <<"PHPSESSID=", c, ";", " Path=/", ";", " HttpOnly">>] : c \in Cookies}
    \cup {[present |-> TRUE, value |-> <<"lang=en", ";", " PHPSESSID=", c, ";">>] : c \in Cookies}
    \cup {[present |-> TRUE, value |-> <<"PHPSESSID=", c>>] : c \in Cookies}
    \cup {[present |-> TRUE, value |-> <<"lang=en", ";">>],
          [present |-> FALSE, value |-> <<>>]}

NoExc == [type |-> "", msg |-> "", status |-> 0]
Exc(type, msg, status) == [type |-> type, msg |-> msg, status |-> status]

\* The text that the pieces of seq make up.
RECURSIVE join(_)
join(seq) == IF seq = <<>> THEN "" ELSE Head(seq) \o join(Tail(seq))

\* The greedy pattern r'PHPSESSID=(.*);': the text up to the last ";".
re_search_greedy(cookie) ==
    LET starts == {i \in 1..Len(cookie) :
                     /\ cookie[i] \in {"PHPSESSID=", " PHPSESSID="}
                     /\ \E j \in (i + 1)..Len(cookie) : cookie[j] = ";"}
    IN  IF starts = {} THEN [matched |-> FALSE, group1 |-> ""]
        ELSE LET i == CHOOSE k \in starts : \A m \in starts : k <= m
                 j == CHOOSE k \in (i + 1)..Len(cookie) :
                        /\ cookie[k] = ";"
                        /\ \A m \in (k + 1)..Len(cookie) : cookie[m] # ";"
             IN  [matched |-> TRUE, group1 |-> join(SubSeq(cookie, i + 1, j - 1))]

\* re.search(r'PHPSESSID=(.*?);', cookie): the leftmost "PHPSESSID=" that a
\* ";" follows, and the shortest text between the two.
re_search(cookie) ==
    LET starts == {i \in 1..Len(cookie) :
                     /\ cookie[i] \in {"PHPSESSID=", " PHPSESSID="}
                     /\ \E j \in (i + 1)..Len(cookie) : cookie[j] = ";"}
    IN  IF starts = {} THEN [matched |-> FALSE, group1 |-> ""]
        ELSE LET i == CHOOSE k \in starts : \A m \in starts : k <= m
                 j == CHOOSE k \in (i + 1)..Len(cookie) :
                        /\ cookie[k] = ";"
                        /\ \A m \in (i + 1)..(k - 1) : cookie[m] # ";"
             IN  [matched |-> TRUE, group1 |-> join(SubSeq(cookie, i + 1, j - 1))]

(***************************************************************************)
(* check_expired, login and parse_result on a received response.           *)
(***************************************************************************)
\* A check_expired that leaves the access_token in place on EXPIRED.
check_expired_keeps_token(obj, r) ==
    [ret |-> r.status_code \in OkStatuses /\ r.body.text = "json" /\ r.body.status = "success",
     obj |-> obj]

\* A check_expired that takes only status 200 for a success.
check_expired_200_only(obj, r) ==
    LET valid == r.status_code = 200 /\ r.body.text = "json" /\ r.body.status = "success"
    IN  [ret |-> valid,
         obj |-> IF valid THEN obj ELSE [obj EXCEPT !.access_token = None]]

\* check_expired after its GET has returned r: the verdict and the object.
check_expired(obj, r) ==
    LET valid == IF r.status_code \in OkStatuses
                 THEN IF r.body.text # "json" THEN FALSE
                      ELSE IF r.body.status = Missing THEN FALSE
                      ELSE r.body.status = "success"
                 ELSE FALSE
    IN  [ret |-> valid,
         obj |-> IF valid THEN obj ELSE [obj EXCEPT !.access_token = None]]

\* A login without the status check.
login_any_status(obj, r) ==
    IF r.body.text # "json" \/ r.body.access_token = Missing \/ r.body.id = 0
       \/ ~r.set_cookie.present \/ ~re_search(r.set_cookie.value).matched
    THEN [exc |-> Exc("KeyError", "", 0), obj |-> obj, set |-> 0]
    ELSE [exc |-> NoExc,
          obj |-> [obj EXCEPT !.access_token = r.body.access_token,
                              !.user_id = str(r.body.id),
                              !.session_id = re_search(r.set_cookie.value).group1],
          set |-> 3]

\* login after its POST has returned r, up to the call of save_session:
\* the assignments made before the first exception, and that exception.
\* set counts the fields assigned.
login(obj, r) ==
    IF r.status_code \notin OkStatuses
    THEN [exc |-> Exc("RuntimeError", "[ERROR] connection failed!", r.status_code),
          obj |-> obj, set |-> 0]
    ELSE IF r.body.text # "json"
    THEN [exc |-> Exc("JSONDecodeError", "", 0), obj |-> obj, set |-> 0]
    ELSE IF r.body.access_token = Missing
    THEN [exc |-> Exc("KeyError", "access_token", 0), obj |-> obj, set |-> 0]
    ELSE LET o1 == [obj EXCEPT !.access_token = r.body.access_token] IN
    IF r.body.id = 0
    THEN [exc |-> Exc("KeyError", "user", 0), obj |-> o1, set |-> 1]
    ELSE LET o2 == [o1 EXCEPT !.user_id = str(r.body.id)] IN
    IF ~r.set_cookie.present
    THEN [exc |-> Exc("KeyError", "Set-Cookie", 0), obj |-> o2, set |-> 2]
    ELSE LET m == re_search(r.set_cookie.value) IN
    IF ~m.matched
    THEN [exc |-> Exc("AttributeError", "group", 0), obj |-> o2, set |-> 2]
    ELSE [exc |-> NoExc, obj |-> [o2 EXCEPT !.session_id = m.group1], set |-> 3]

\* A parse_result that returns the payload whatever the status says.
parse_result_ignores_status(r, url) ==
    IF r.body.text # "json" THEN [value |-> "raise", exc |-> Exc("JSONDecodeError", "", 0)]
    ELSE IF r.body.response = Missing
    THEN [value |-> "raise", exc |-> Exc("Pixiv_Get_Error", url, 0)]
    ELSE [value |-> r.body.response, exc |-> NoExc]

\* parse_result of the response r of the GET to url.
parse_result(r, url) ==
    IF r.body.text # "json" THEN [value |-> "raise", exc |-> Exc("JSONDecodeError", "", 0)]
    ELSE IF r.body.status = Missing
    THEN [value |-> "raise", exc |-> Exc("KeyError", "status", 0)]
    ELSE IF r.body.status = "success"
    THEN IF r.body.response = Missing
         THEN [value |-> "raise", exc |-> Exc("KeyError", "response", 0)]
         ELSE [value |-> r.body.response, exc |-> NoExc]
    ELSE [value |-> "raise", exc |-> Exc("Pixiv_Get_Error", url, 0)]

(***************************************************************************)
(* The state.                                                              *)
(***************************************************************************)
VARIABLES
    file,         \* the content of the file 'session'
    self,         \* the attributes of the PixivApi object of the running process
    pc,           \* where the process is: "init", "probing", "prompt", "authing",
                  \* "saving", "retry", "ready", "querying", "aborted", "failed"
    call,         \* the call of the public interface that is in progress
    inflight,     \* the request the process is blocked on, or NoReq
    last,         \* the method that returned or raised last in the current call of the
                  \* public interface, with its result
    serverValid,  \* the bearer tokens the service accepts at the moment
    origin,       \* history: where each credential field of self was last set from
    vouched,      \* history: the token the service last accepted from or issued to this process
    saved,        \* history: the record of the last completed save_session, if the file still is that save
    expired,      \* history: the token for which check_expired of this process returned False
    printed       \* the pieces of the text printed in the current call of the public interface
                  \* by the last step that has printed anything

vars == <<file, self, pc, call, inflight, last, serverValid, origin, vouched, saved,
         expired, printed>>

NoLast == [fn |-> "", value |-> None, exc |-> NoExc]
Returned(fn, value) == [fn |-> fn, value |-> value, exc |-> NoExc]
Raised(fn, exc) == [fn |-> fn, value |-> "raise", exc |-> exc]

NoOrigin == [access_token |-> "default", user_id |-> "default", session_id |-> "default"]

\* origin after the first n credential fields were assigned from src.
Assigned(o, n, src) ==
    [k \in DOMAIN o |->
        IF \E i \in 1..n : Keys[i] = k THEN src ELSE o[k]]

\* The fields of the login exchange before the current one are no longer current.
Demoted(o) == [k \in DOMAIN o |-> IF o[k] = "cur" THEN "old" ELSE o[k]]

\* The bearer token a request presents, None when it has no Authorization header.
BearerOf(req) ==
    IF \E t \in Tokens : req.authorization = "Bearer " \o t
    THEN CHOOSE t \in Tokens : req.authorization = "Bearer " \o t
    ELSE None

\* The service accepts the credential a request presents.
Accepts(req) == BearerOf(req) \in serverValid

\* The service answers a GET with a success envelope only to a credential it accepts.
MayAnswer(req, body) == body.status = "success" => Accepts(req)

\* What follows the normal return of login_required in the caller: a query
\* operation issues its GET; __init__ and a direct call are over.
Return(obj, c) ==
    IF c.op \in QueryOps
    THEN [pc |-> "querying", obj |-> with_session(obj), inflight |-> QueryRequest(obj, c)]
    ELSE [pc |-> "ready", obj |-> obj, inflight |-> NoReq]

\* A login_required that asks for credentials whatever the access_token is.
login_required_always(obj, c) == [pc |-> "prompt", obj |-> obj, inflight |-> NoReq]

\* login_required up to its prompt: with a truthy access_token it returns at once.
login_required(obj, c) ==
    IF ~Truthy(obj.access_token)
    THEN [pc |-> "prompt", obj |-> obj, inflight |-> NoReq]
    ELSE Return(obj, c)

\* The call in progress once the process is at nx: none when it is back at its caller.
CallAt(nx, c) == IF nx.pc \in {"ready", "aborted", "failed"} THEN NoCall ELSE c

\* A retry prompt that takes 'Y' for 'y'.
retry_accepted_any_case(answer) == answer \in {"y", "Y"}

\* `if input('Retry? y/n') == 'y'`
retry_accepted(answer) == answer = "y"

\* What print(e) writes: str(e) of the exception, in pieces; an exception
\* with two arguments prints both.
str_exc(e) == IF e.status # 0 THEN {e.msg, str(e.status)} ELSE {e.msg}

\* What check_expired prints once its GET has returned r: the exception of
\* the try block if there is one, and the verdict.
check_expired_out(r) ==
    LET parsed == r.status_code \in OkStatuses
        e == IF r.body.text # "json" THEN Exc("JSONDecodeError", "Expecting value", 0)
             ELSE Exc("KeyError", "status", 0)
        valid == parsed /\ r.body.text = "json" /\ r.body.status = "success"
    IN  (IF parsed /\ (r.body.text # "json" \/ r.body.status = Missing) THEN str_exc(e) ELSE {})
        \cup {IF valid THEN " [VALID]" ELSE " [EXPIRED]"}

\* What login_required prints when it stops at nx: nothing when it returns
\* at once, 'Please login' and the prompt of input when it asks.
login_required_out(nx) == IF nx.pc = "prompt" THEN {"Please login", "username:"} ELSE {}

\* What the handler of login_required prints for the exception e of login.
login_failed_out(e) == {"Login failed:", "Retry? y/n"} \cup str_exc(e)

\* The text after a step that has printed out: out itself, or what was
\* there when the step has printed nothing.
Output(out, before) == IF out = {} THEN before ELSE out

Init ==
    /\ file \in Files
    /\ self = ClassDefaults
    /\ pc = "init"
    /\ call = InitCall
    /\ inflight = NoReq
    /\ last = NoLast
    /\ serverValid \in SUBSET Tokens
    /\ origin = NoOrigin
    /\ vouched = None
    /\ saved = NoRecord
    /\ expired = None
    /\ printed = {}

\* An __init__ that takes the loaded record for a session without check_expired.
Construct_trusts_file ==
    /\ pc = "init"
    /\ LET exists == file.kind # "absent"
           ld == IF exists THEN load_session(self, file)
                 ELSE [ret |-> "None", truthy |-> FALSE, obj |-> self, set |-> 0]
           nx == IF ld.truthy
                 THEN [pc |-> "ready", obj |-> ld.obj, inflight |-> NoReq]
                 ELSE login_required(ld.obj, InitCall)
       IN  /\ pc' = nx.pc
           /\ self' = nx.obj
           /\ inflight' = nx.inflight
           /\ call' = CallAt(nx, call)
           /\ last' = IF exists THEN Returned("load_session", ld.ret) ELSE last
           /\ origin' = Assigned(origin, ld.set, "file")
           /\ printed' = Output(login_required_out(nx), printed)
    /\ UNCHANGED <<file, serverValid, vouched, saved, expired>>

(***************************************************************************)
(* __init__ up to its first blocking point: load_session when the file     *)
(* exists, then the probe GET of check_expired or the prompt of            *)
(* login_required.                                                         *)
(***************************************************************************)
Construct ==
    /\ pc = "init"
    /\ LET exists == file.kind # "absent"
           ld == IF exists THEN load_session(self, file)
                 ELSE [ret |-> "None", truthy |-> FALSE, obj |-> self, set |-> 0]
           nx == IF ld.truthy
                 THEN [pc |-> "probing", obj |-> with_session(ld.obj),
                       inflight |-> _request_pixiv(ld.obj, "GET", ProbeUrl, {}, {})]
                 ELSE login_required(ld.obj, InitCall)
       IN  /\ pc' = nx.pc
           /\ self' = nx.obj
           /\ inflight' = nx.inflight
           /\ last' = IF exists THEN Returned("load_session", ld.ret) ELSE last
           /\ origin' = Assigned(origin, ld.set, "file")
           /\ printed' = IF ld.truthy THEN {"Checking session"} ELSE login_required_out(nx)
    /\ UNCHANGED <<file, call, serverValid, vouched, saved, expired>>

\* A check_expired that, on EXPIRED, sends a request to the auth endpoint itself.
ProbeResponse_relogin(status, body) ==
    /\ pc = "probing"
    /\ MayAnswer(inflight, body)
    /\ LET ce == check_expired(self, [status_code |-> status, body |-> body])
           nx == IF ce.ret THEN [pc |-> "ready", obj |-> ce.obj, inflight |-> NoReq]
                 ELSE [pc |-> "authing", obj |-> ce.obj,
                       inflight |-> _request_pixiv(ce.obj, "POST", AuthUrl, {},
                                                   login_data("alice", "hunter2"))]
       IN  /\ pc' = nx.pc
           /\ self' = nx.obj
           /\ inflight' = nx.inflight
           /\ last' = Returned("check_expired", IF ce.ret THEN "True" ELSE "False")
           /\ origin' = IF ce.ret THEN origin ELSE [origin EXCEPT !.access_token = "default"]
           /\ vouched' = IF ce.ret THEN BearerOf(inflight) ELSE vouched
           /\ expired' = IF ce.ret THEN expired ELSE BearerOf(inflight)
           /\ call' = CallAt(nx, call)
           /\ printed' = check_expired_out([status_code |-> status, body |-> body])
    /\ UNCHANGED <<file, serverValid, saved>>

\* A check_expired that removes the session file when it finds it EXPIRED.
ProbeResponse_removes_file(status, body) ==
    /\ pc = "probing"
    /\ MayAnswer(inflight, body)
    /\ LET ce == check_expired(self, [status_code |-> status, body |-> body])
           nx == IF ce.ret THEN [pc |-> "ready", obj |-> ce.obj, inflight |-> NoReq]
                 ELSE login_required(ce.obj, call)
       IN  /\ pc' = nx.pc
           /\ self' = nx.obj
           /\ inflight' = nx.inflight
           /\ last' = Returned("check_expired", IF ce.ret THEN "True" ELSE "False")
           /\ origin' = IF ce.ret THEN origin ELSE [origin EXCEPT !.access_token = "default"]
           /\ vouched' = IF ce.ret THEN BearerOf(inflight) ELSE vouched
           /\ expired' = IF ce.ret THEN expired ELSE BearerOf(inflight)
           /\ call' = CallAt(nx, call)
           /\ printed' = check_expired_out([status_code |-> status, body |-> body])
                            \cup (IF ce.ret THEN {} ELSE login_required_out(nx))
           /\ file' = IF ce.ret THEN file ELSE NoFile
    /\ UNCHANGED <<serverValid, saved>>

\* The probe GET returns: the rest of check_expired, then of __init__.
ProbeResponse(status, body) ==
    /\ pc = "probing"
    /\ MayAnswer(inflight, body)
    /\ LET ce == check_expired(self, [status_code |-> status, body |-> body])
           nx == IF ce.ret THEN [pc |-> "ready", obj |-> ce.obj, inflight |-> NoReq]
                 ELSE login_required(ce.obj, call)
       IN  /\ pc' = nx.pc
           /\ self' = nx.obj
           /\ inflight' = nx.inflight
           /\ last' = Returned("check_expired", IF ce.ret THEN "True" ELSE "False")
           /\ origin' = IF ce.ret THEN origin ELSE [origin EXCEPT !.access_token = "default"]
           /\ vouched' = IF ce.ret THEN BearerOf(inflight) ELSE vouched
           /\ expired' = IF ce.ret THEN expired ELSE BearerOf(inflight)
           /\ call' = CallAt(nx, call)
           /\ printed' = check_expired_out([status_code |-> status, body |-> body])
                            \cup (IF ce.ret THEN {} ELSE login_required_out(nx))
    /\ UNCHANGED <<file, serverValid, saved>>

\* The user answers the two prompts of login_required; login sends its POST.
Prompt(username, password) ==
    /\ pc = "prompt"
    /\ pc' = "authing"
    /\ inflight' = _request_pixiv(self, "POST", AuthUrl, {}, login_data(username, password))
    /\ self' = with_session(self)
    /\ printed' = {"password:"}
    /\ UNCHANGED <<file, call, last, serverValid, origin, vouched, saved, expired>>

\* The login POST returns: login up to the open() of save_session, or up to
\* its exception, which login_required catches and answers with the retry prompt.
LoginResponse(status, body, set_cookie) ==
    /\ pc = "authing"
    /\ \E lg \in {login(self, [status_code |-> status, body |-> body, set_cookie |-> set_cookie])} :
       LET issued == status \in OkStatuses /\ body.text = "json" /\ body.access_token # Missing
       IN  /\ self' = lg.obj
           /\ inflight' = NoReq
           /\ origin' = Assigned(Demoted(origin), lg.set, "cur")
           /\ serverValid' = IF issued THEN serverValid \cup {body.access_token} ELSE serverValid
           /\ vouched' = IF lg.set >= 1 THEN lg.obj.access_token ELSE vouched
           /\ IF lg.exc = NoExc
              THEN /\ pc' = "saving"
                   /\ file' = save_session_open(lg.obj)
                   /\ saved' = NoRecord
                   /\ last' = last
                   /\ printed' = printed
              ELSE /\ pc' = "retry"
                   /\ last' = Raised("login", lg.exc)
                   /\ printed' = login_failed_out(lg.exc)
                   /\ UNCHANGED <<file, saved>>
    /\ UNCHANGED <<call, expired>>

\* json.dump and the close of the file; login returns None, login_required
\* returns, and the caller goes on.
SaveWrite ==
    /\ pc = "saving"
    /\ file' = save_session(self)
    /\ saved' = Record(self)
    /\ last' = Returned("login", None)
    /\ LET nx == Return(self, call)
       IN  /\ pc' = nx.pc
           /\ self' = nx.obj
           /\ inflight' = nx.inflight
           /\ call' = CallAt(nx, call)
    /\ UNCHANGED <<serverValid, origin, vouched, expired, printed>>

\* A handler that returns instead of calling sys.exit when the retry is declined.
RetryAnswer_returns(answer) ==
    /\ pc = "retry"
    /\ LET nx == IF retry_accepted(answer) THEN login_required(self, call)
                 ELSE Return(self, call)
       IN  /\ pc' = nx.pc
           /\ self' = nx.obj
           /\ inflight' = nx.inflight
           /\ call' = CallAt(nx, call)
           /\ printed' = Output(login_required_out(nx), printed)
    /\ UNCHANGED <<file, last, serverValid, origin, vouched, saved, expired>>

\* The user answers 'Retry? y/n': the nested login_required, or sys.exit.
RetryAnswer(answer) ==
    /\ pc = "retry"
    /\ LET nx == IF retry_accepted(answer) THEN login_required(self, call)
                 ELSE [pc |-> "aborted", obj |-> self, inflight |-> NoReq]
       IN  /\ pc' = nx.pc
           /\ self' = nx.obj
           /\ inflight' = nx.inflight
           /\ call' = CallAt(nx, call)
           /\ printed' = Output(login_required_out(nx), printed)
    /\ UNCHANGED <<file, last, serverValid, origin, vouched, saved, expired>>

\* One of the three query operations is called: login_required, then its GET.
QueryCall(c) ==
    /\ pc = "ready"
    /\ LET nx == login_required(self, c)
       IN  /\ call' = CallAt(nx, c)
           /\ pc' = nx.pc
           /\ self' = nx.obj
           /\ inflight' = nx.inflight
           /\ printed' = login_required_out(nx)
    /\ last' = NoLast
    /\ UNCHANGED <<file, serverValid, origin, vouched, saved, expired>>

\* login_required is called directly.
LoginRequiredCall ==
    /\ pc = "ready"
    /\ LET nx == login_required(self, DirectCall)
       IN  /\ call' = CallAt(nx, DirectCall)
           /\ pc' = nx.pc
           /\ self' = nx.obj
           /\ inflight' = nx.inflight
           /\ last' = IF nx.pc = "ready" THEN Returned("login_required", None) ELSE NoLast
           /\ printed' = login_required_out(nx)
    /\ UNCHANGED <<file, serverValid, origin, vouched, saved, expired>>

\* The GET of a query returns: parse_result (which reads the body, not the
\* status code), whose value or exception the operation hands to its caller.
QueryResponse(body) ==
    /\ pc = "querying"
    /\ MayAnswer(inflight, body)
    /\ LET pr == parse_result([body |-> body], inflight.url)
       IN  last' = [fn |-> call.op, value |-> pr.value, exc |-> pr.exc]
    /\ pc' = "ready"
    /\ call' = NoCall
    /\ inflight' = NoReq
    /\ UNCHANGED <<file, self, serverValid, origin, vouched, saved, expired, printed>>

set_timeout(obj, timeout) == [obj EXCEPT !.timeout = timeout]

SetTimeout(timeout) ==
    /\ pc = "ready"
    /\ self' = set_timeout(self, timeout)
    /\ UNCHANGED <<file, pc, call, inflight, last, serverValid, origin, vouched, saved,
                   expired, printed>>

\* The transport raises (timeout, connection error) instead of returning a
\* response: out of __init__ in check_expired, into the handler of
\* login_required in login, out of the operation in a query.
TransportError ==
    /\ pc \in {"probing", "authing", "querying"}
    /\ LET e == Exc("ConnectionError", inflight.url, 0)
       IN  /\ pc' = IF pc = "probing" THEN "failed"
                    ELSE IF pc = "authing" THEN "retry" ELSE "ready"
           /\ last' = Raised(IF pc = "probing" THEN "check_expired"
                             ELSE IF pc = "authing" THEN "login" ELSE call.op, e)
           /\ printed' = IF pc = "authing"
                         THEN login_failed_out(e) \cup {kv[2] : kv \in inflight.params}
                         ELSE printed
    /\ call' = IF pc = "authing" THEN call ELSE NoCall
    /\ inflight' = NoReq
    /\ UNCHANGED <<file, self, serverValid, origin, vouched, saved, expired>>

\* The service ends the validity of a token.
ServiceInvalidate(t) ==
    /\ t \in serverValid
    /\ serverValid' = serverValid \ {t}
    /\ UNCHANGED <<file, self, pc, call, inflight, last, origin, vouched, saved,
                   expired, printed>>

\* The process is over (it returned, exited or was killed) and the program
\* is started again: a new object with the class defaults, the same file.
NewProcess ==
    /\ pc # "init"
    /\ pc' = "init"
    /\ self' = ClassDefaults
    /\ call' = InitCall
    /\ inflight' = NoReq
    /\ last' = NoLast
    /\ origin' = NoOrigin
    /\ vouched' = None
    /\ expired' = None
    /\ printed' = {}
    /\ UNCHANGED <<file, serverValid, saved>>

Next ==
    \/ Construct
    \/ \E status \in Statuses, body \in Bodies : ProbeResponse(status, body)
    \/ \E username \in Usernames, password \in Passwords : Prompt(username, password)
    \/ \E status \in Statuses, body \in AuthBodies, set_cookie \in SetCookies :
          LoginResponse(status, body, set_cookie)
    \/ SaveWrite
    \/ \E answer \in Answers : RetryAnswer(answer)
    \/ \E c \in Calls : QueryCall(c)
    \/ LoginRequiredCall
    \/ \E body \in Bodies : QueryResponse(body)
    \/ \E timeout \in Timeouts : SetTimeout(timeout)
    \/ TransportError
    \/ \E t \in Tokens : ServiceInvalidate(t)
    \/ NewProcess

Spec == Init /\ [][Next]_vars

(***************************************************************************)
(* Properties.                                                             *)
(***************************************************************************)
\* A query operation sends its GET in this step.
QuerySent == pc # "querying" /\ pc' = "querying"

\* C1 (as stated): whenever a query operation sends its GET, the bearer
\* token the request presents is one the service accepts at that moment,
\* also when the service has invalidated the session since the startup probe.
C1_ValidAtSend == [][QuerySent => BearerOf(inflight') \in serverValid']_vars

\* C1 (amended): whenever a query operation sends its GET, the request
\* presents a non-empty bearer token, and it is the token the service last
\* accepted from this process (the startup probe answered VALID) or last
\* issued to it (the body of an auth response); whether the service still
\* accepts it is not checked again.
C1_VouchedAtSend ==
    [][QuerySent => (BearerOf(inflight') # None /\ BearerOf(inflight') = vouched')]_vars

\* C1's case: a query GET in flight whose token the service no longer accepts.
C1_Witness ==
    /\ pc = "querying"
    /\ BearerOf(inflight) = vouched
    /\ vouched \in Tokens \ serverValid

\* C2 (as stated): whenever the client is ready for queries, the three
\* credential fields are non-empty and all come from one loaded file or from
\* one login response.
C2_CompleteRecord ==
    pc = "ready" =>
        /\ Truthy(self.access_token) /\ Truthy(self.user_id) /\ Truthy(self.session_id)
        /\ origin.access_token \in {"file", "cur"}
        /\ origin.user_id = origin.access_token
        /\ origin.session_id = origin.access_token

\* The session file is malformed: not a JSON text, or a JSON object without
\* one of the three keys.
Malformed(f) ==
    \/ f.kind \in {"empty", "truncated", "nonjson"}
    \/ f.kind = "object" /\ \E i \in 1..3 : f[Keys[i]] = Missing

\* C3 (as stated): when the session file is malformed, construction sets no
\* credential field from it and goes to the prompt of login_required
\* without probing.
C3_MalformedIsAbsent ==
    [][(pc = "init" /\ Malformed(file) /\ pc' # "init")
         => (pc' = "prompt" /\ Record(self') = Record(self) /\ inflight' = NoReq)]_vars

\* C4 (as stated): after a failed login attempt, the answer 'y' to the retry
\* prompt leads to the credential prompt and a new login exchange:
\* login_required does not return to its caller from a failed attempt.
C4_RetryLogsInAgain ==
    [][pc = "retry" =>
         /\ RetryAnswer("y") => pc' = "prompt"
         /\ pc' \notin {"ready", "querying"}]_vars

\* C5: an answer other than 'y' to the retry prompt ends the process
\* (sys.exit), and an ended process issues no request: it stays ended until
\* the program is started again.
C5_DeclineAborts ==
    [][/\ pc = "retry" => \A a \in Answers \ {"y"} : RetryAnswer(a) => pc' = "aborted"
       /\ pc = "aborted" => (inflight = NoReq /\ inflight' = NoReq /\ pc' \in {"aborted", "init"})]_vars

\* C5's case: the process has exited after a failed login.
C5_Witness == pc = "aborted" /\ last.fn = "login" /\ last.value = "raise"

\* The verdict the spec gives a probe answer.
ProbeVerdict(status, body) ==
    status \in {200, 301, 302} /\ body.text = "json" /\ body.status = "success"

\* C6: for every status and body of the probe answer, check_expired returns
\* True exactly when the status is 200, 301 or 302 and the body parses with
\* status 'success', and then leaves the credential as it was; otherwise it
\* returns False and the access_token is None afterwards.
C6_ValidityClassification ==
    [][pc = "probing" =>
         \A status \in Statuses, body \in Bodies :
            ProbeResponse(status, body) =>
                IF ProbeVerdict(status, body)
                THEN /\ last' = Returned("check_expired", "True")
                     /\ Record(self') = Record(self)
                ELSE /\ last' = Returned("check_expired", "False")
                     /\ self'.access_token = None
                     /\ self'.user_id = self.user_id
                     /\ self'.session_id = self.session_id]_vars

\* C6's case: a probe of a loaded token has answered EXPIRED.
C6_Witness ==
    /\ last = Returned("check_expired", "False")
    /\ file.access_token # Missing
    /\ self.access_token = None
    /\ self.user_id # ""

\* C7: while the access_token is non-empty, a call of login_required, direct
\* or through a query operation, prompts for nothing and sends nothing to
\* the auth endpoint; a query operation sends its one GET and returns when
\* that GET has returned.
C7_NoLoginWhileValid ==
    [][/\ (pc = "ready" /\ Truthy(self.access_token)) =>
            /\ pc' \in {"ready", "querying", "init"}
            /\ pc' = "ready" => inflight' = NoReq
            /\ pc' = "querying" => (inflight'.method = "GET" /\ inflight'.url # AuthUrl
                                    /\ inflight'.url # ProbeUrl)
       /\ pc = "querying" =>
            /\ pc' \in {"querying", "ready", "init"}
            /\ pc' = "querying" => inflight' = inflight
            /\ pc' = "ready" => inflight' = NoReq]_vars

\* C7's case: a direct call of login_required has returned on a valid session.
C7_Witness ==
    /\ pc = "ready"
    /\ last = Returned("login_required", None)
    /\ Truthy(self.access_token)

\* C8: when the auth endpoint answers with a status outside 200, 301, 302,
\* whatever the body and the headers, login raises an error that carries
\* that status and assigns nothing; and whenever login fails, by an error
\* of its own or of the transport, the session file is as it was before
\* the call.
C8_LoginFailureSurface ==
    /\ [](pc = "authing" =>
            \A status \in Statuses \ {200, 301, 302}, body \in AuthBodies, set_cookie \in SetCookies :
                LET lg == login(self, [status_code |-> status, body |-> body,
                                       set_cookie |-> set_cookie])
                IN  /\ lg.exc.type = "RuntimeError"
                    /\ lg.exc.status = status
                    /\ lg.obj = self)
    /\ [][(pc = "authing" /\ pc' \notin {"authing", "init"}) =>
            \/ /\ pc' = "retry"
               /\ last'.fn = "login" /\ last'.value = "raise" /\ last'.exc # NoExc
               /\ file' = file
            \/ pc' = "saving"]_vars

\* C8's case: login has failed on status 403 with a session file on disk.
C8_Witness ==
    /\ pc = "retry"
    /\ last.fn = "login" /\ last.exc.status = 403
    /\ file.kind = "object"

\* The Set-Cookie headers that contain 'PHPSESSID=<c>;'.
HeadersWith(c) ==
    {[present |-> TRUE, value |-> <<"PHPSESSID=", c, ";", " Path=/", ";", " HttpOnly">>],
     [present |-> TRUE, value |-> <<"lang=en", ";", " PHPSESSID=", c, ";">>]}

C10_RoundTrip ==
    (last.fn = "load_session" /\ saved # NoRecord) =>
        /\ last.value = "dict"
        /\ pc = "probing"
        /\ Record(self) = saved

\* C10's case: a later process has loaded the record an earlier one saved.
C10_Witness ==
    /\ last.fn = "load_session"
    /\ saved # NoRecord
    /\ Record(self) = saved
    /\ saved.access_token \in Tokens

\* The URL a query operation requests.
UrlOf(op) ==
    IF op = "get_user_illustrations"
    THEN "https://public-api.secure.pixiv.net/v1/users/11/works.json"
    ELSE IF op = "get_illustration"
    THEN "https://public-api.secure.pixiv.net/v1/works/99.json"
    ELSE "https://public-api.secure.pixiv.net/v1/ranking/all"

\* C11 (as stated): for each query operation and every response body, a
\* body whose status is 'success' makes the query return the body's payload
\* unchanged, and every other body (a JSON object with another status or
\* with none) makes it fail with an error that carries the request URL; the
\* payload is returned in no other case.
C11_EnvelopeContract ==
    [][\A body \in Bodies :
          (QueryResponse(body) /\ body.text = "json") =>
              /\ last'.fn = call.op
              /\ IF body.status = "success"
                 THEN body.response # Missing =>
                          (last'.exc = NoExc /\ last'.value = body.response)
                 ELSE /\ last'.value = "raise"
                      /\ last'.exc.type = "Pixiv_Get_Error"
                      /\ last'.exc.msg = UrlOf(call.op)]_vars

\* C11 (amended): for each query operation and every response body that is
\* a JSON object with a status key, status 'success' makes the query return
\* the payload unchanged and any other status makes it fail with an error
\* carrying the request URL; a body that is not JSON, or is a JSON object
\* without the status key (or with status 'success' and no response key),
\* makes the query fail with the parser's error or a KeyError, which do not
\* carry the URL.  The payload is returned only on status 'success'.
C11_EnvelopeOfShape ==
    [][\A body \in Bodies :
          QueryResponse(body) =>
              /\ last'.fn = call.op
              /\ (body.text = "json" /\ body.status = "success" /\ body.response # Missing) =>
                     (last'.exc = NoExc /\ last'.value = body.response)
              /\ (body.text = "json" /\ body.status \notin {"success", Missing}) =>
                     /\ last'.value = "raise"
                     /\ last'.exc.type = "Pixiv_Get_Error"
                     /\ last'.exc.msg = UrlOf(call.op)
              /\ (body.text # "json") =>
                     (last'.value = "raise" /\ last'.exc.type = "JSONDecodeError")
              /\ (body.text = "json" /\ body.status = Missing) =>
                     (last'.value = "raise" /\ last'.exc = Exc("KeyError", "status", 0))
              /\ (body.text = "json" /\ body.status = "success" /\ body.response = Missing) =>
                     (last'.value = "raise" /\ last'.exc = Exc("KeyError", "response", 0))
              /\ last'.exc # NoExc => last'.value = "raise"]_vars

\* C11's case: a query has failed on an envelope whose status is not
\* 'success', with the error that carries the URL of its GET.
C11_Witness ==
    /\ pc = "ready"
    /\ last.fn = "get_illustration"
    /\ last.value = "raise"
    /\ last.exc = Exc("Pixiv_Get_Error", "https://public-api.secure.pixiv.net/v1/works/99.json", 0)

\* C12: in a construction, a session file that holds a record leads to the
\* probe GET and, on the verdict VALID, straight to the ready client, with
\* no prompt and no request to the auth endpoint in between; an absent file
\* and the verdict EXPIRED lead to the prompt of login_required, the prompt
\* leads only to the login POST with the credentials entered, and before
\* the client is ready on that path login has been called.
C12_ConstructionPaths ==
    [][(call = InitCall /\ pc' # "init") =>
          /\ pc = "init" =>
                /\ file.kind = "absent" => (pc' = "prompt" /\ inflight' = NoReq)
                /\ pc' \in {"prompt", "probing"}
                /\ pc' = "probing" =>
                      /\ file.kind = "object"
                      /\ inflight'.method = "GET" /\ inflight'.url = ProbeUrl
          /\ (pc = "probing" /\ pc' # "probing") =>
                \/ /\ last' = Returned("check_expired", "True")
                   /\ pc' = "ready" /\ inflight' = NoReq
                   /\ Truthy(self'.access_token)
                \/ /\ last' = Returned("check_expired", "False")
                   /\ pc' = "prompt" /\ inflight' = NoReq
                   /\ self'.access_token = None
                \/ /\ last'.exc.type = "ConnectionError"
                   /\ pc' = "failed"
          /\ (pc = "prompt" /\ pc' # "prompt") =>
                /\ pc' = "authing"
                /\ inflight'.method = "POST" /\ inflight'.url = AuthUrl
                /\ \E username \in Usernames, password \in Passwords :
                      inflight'.data = login_data(username, password)
          /\ (pc # "ready" /\ pc' = "ready") => pc \in {"probing", "saving", "retry"}
          /\ (pc # "saving" /\ pc' = "saving") => pc = "authing"
          /\ (pc # "retry" /\ pc' = "retry") => pc = "authing"
          /\ (pc # "authing" /\ pc' = "authing") => pc = "prompt"]_vars

\* C12's case: the construction is over and the client is ready on the
\* record of the session file, after the probe has answered VALID.
C12_Witness ==
    /\ pc = "ready"
    /\ call = NoCall
    /\ last = Returned("check_expired", "True")
    /\ file.kind = "object"
    /\ self.access_token \in Tokens

\* C13: save_session replaces the session file atomically: at every step,
\* also when the process stops in the middle of a save, the file holds
\* either what it held before or the complete record being saved, never an
\* empty or half-written text.
C13_AtomicSave == [][file' \in {file, save_session(self')}]_vars

\* A request is handed to the transport in this step.
RequestSent == inflight' # NoReq /\ inflight' # inflight

\* C14: once check_expired has returned False for a token, a request that
\* the process sends has no Authorization and no Cookie header until a
\* login has succeeded, and from then on carries the token and the session
\* cookie of that login; the token found expired is presented again only if
\* that login has delivered it.
C14_NoStaleCredential ==
    [][(expired' # None /\ RequestSent) =>
          IF inflight'.authorization = Missing
          THEN inflight'.cookie = Missing
          ELSE /\ origin' = [access_token |-> "cur", user_id |-> "cur", session_id |-> "cur"]
               /\ inflight'.authorization = "Bearer " \o self'.access_token
               /\ inflight'.cookie = "PHPSESSID=" \o self'.session_id]_vars

\* C15: a call of check_expired hands exactly one request to the transport,
\* a GET to the probe endpoint; while it waits it sends nothing more, and
\* whatever the status and the body of the response are it returns its
\* verdict without another request: no second GET and no login POST.
C15_OneProbeRequest ==
    [][/\ (pc # "probing" /\ pc' = "probing") =>
            /\ inflight'.method = "GET"
            /\ inflight'.url = ProbeUrl
            /\ inflight'.params = {} /\ inflight'.data = {}
       /\ (pc = "probing" /\ pc' = "probing") => inflight' = inflight
       /\ (pc = "probing" /\ pc' \notin {"probing", "init"}) =>
            /\ inflight' = NoReq
            /\ last'.fn = "check_expired"
            /\ pc' \in {"ready", "prompt", "failed"}
       /\ pc = "probing" =>
            \A status \in Statuses, body \in Bodies :
                ProbeResponse(status, body) =>
                    /\ inflight' = NoReq
                    /\ last' \in {Returned("check_expired", "True"),
                                  Returned("check_expired", "False")}
                    /\ pc' \in {"ready", "prompt"}]_vars

\* C15's case: check_expired has returned on a response with an error
\* status, and no request is in flight.
C15_Witness ==
    /\ pc = "prompt"
    /\ last = Returned("check_expired", "False")
    /\ inflight = NoReq
    /\ expired \in Tokens
    /\ " [EXPIRED]" \in printed

\* C16: the password entered at the prompt is in no field of the session
\* file, in no text the client has printed (the error printed after a
\* failed login included), in no field of the object and in no exception;
\* of a request it is only in the form body, under the key 'password', and
\* that request is the POST to the auth endpoint.
C16_PasswordOnlyInPost ==
    \A p \in Passwords :
        /\ p \notin printed
        /\ \A i \in 1..3 : file[Keys[i]] \notin {p, json_dumps(p)}
        /\ \A i \in 1..3 : self[Keys[i]] # p
        /\ last.value # p /\ last.exc.msg # p
        /\ inflight.url # p
        /\ inflight.authorization # "Bearer " \o p
        /\ inflight.cookie # "PHPSESSID=" \o p
        /\ \A kv \in inflight.params : kv[2] # p
        /\ \A kv \in inflight.data :
              kv[2] = p => (kv[1] = "password" /\ inflight.method = "POST"
                            /\ inflight.url = AuthUrl)

\* C16's case: a login with the password has failed, its error has been
\* printed, and an earlier login has left a record in the session file.
C16_Witness ==
    /\ pc = "retry"
    /\ "Login failed:" \in printed
    /\ last.exc.type = "RuntimeError"
    /\ file.kind = "object"
    /\ saved # NoRecord

\* The parameters of the ranking GET other than the date, as the transport
\* encodes them.
RankingParams ==
    {<<"mode", "daily">>, <<"page", "1">>, <<"per_page", "100">>,
     <<"include_stats", "True">>, <<"include_sanity_level", "True">>,
     <<"image_sizes", "px_128x128,px_480mw,small,medium,large">>,
     <<"profile_image_sizes", "px_170x170,px_50x50">>}

\* C17: the GET of get_ranking_illustrations called with a non-empty date d
\* has the parameter date=d; called without a date, or with the empty one,
\* it has no parameter named date; mode, page, per_page, the include flags
\* and the size selectors are the same in both cases.
C17_RankingDate ==
    [][(QuerySent /\ call'.op = "get_ranking_illustrations") =>
          /\ inflight'.method = "GET"
          /\ inflight'.url = "https://public-api.secure.pixiv.net/v1/ranking/all"
          /\ inflight'.data = {}
          /\ {kv \in inflight'.params : kv[1] # "date"} = RankingParams
          /\ IF call'.arg = ""
             THEN \A kv \in inflight'.params : kv[1] # "date"
             ELSE {kv \in inflight'.params : kv[1] = "date"} = {<<"date", call'.arg>>}]_vars

\* C17's case: a ranking GET for the date 2015-04-01 is in flight.
C17_Witness ==
    /\ pc = "querying"
    /\ call = [op |-> "get_ranking_illustrations", arg |-> "2015-04-01"]
    /\ <<"date", "2015-04-01">> \in inflight.params

\* C18: the session file changes only inside a login whose exchange has
\* succeeded, in its save_session, and when that login returns the file
\* holds the record of the object; load_session, check_expired with either
\* verdict, the query operations, set_timeout, the prompts and a failed
\* login leave it as it is, nothing removes it, and the verdict EXPIRED
\* clears the access_token of the object and nothing else.
C18_FileFrame ==
    [][/\ file' # file =>
            \/ pc = "authing" /\ pc' = "saving"
            \/ /\ pc = "saving" /\ pc' # "saving"
               /\ last' = Returned("login", None)
               /\ file' = FileOf("object", json_dumps(self.access_token),
                                 json_dumps(self.user_id), json_dumps(self.session_id))
       /\ file'.kind = "absent" => file.kind = "absent"
       /\ pc \in {"init", "probing", "prompt", "retry", "ready", "querying",
                  "aborted", "failed"} => file' = file
       /\ (pc = "authing" /\ pc' = "retry") => file' = file
       /\ (pc = "probing" /\ last' = Returned("check_expired", "False")) =>
            /\ file' = file
            /\ self' = [self EXCEPT !.access_token = None]]_vars

\* C18's case: check_expired has found the token of the session file
\* EXPIRED and cleared it in the object, and the record is still on disk.
C18_Witness ==
    /\ last = Returned("check_expired", "False")
    /\ expired \in Tokens
    /\ self.access_token = None
    /\ file.kind = "object"
    /\ file.access_token = json_dumps(expired)

\* C19: a login that fails, whatever the reason, leaves access_token,
\* user_id and session_id of the object as they were before the call.
C19_FailedLoginKeepsCredential ==
    [][(pc = "authing" /\ pc' = "retry") => Record(self') = Record(self)]_vars

(***************************************************************************)
(* Session establishment in one process whose network calls all return:    *)
(* the steps of __init__ and login_required, and the calls of              *)
(* login_required on the ready client.  __init__ runs, the probe GET       *)
(* returns, the credentials are entered and the file is written (weak      *)
(* fairness of Proceeds).  The user in the end enters credentials that the *)
(* service accepts, or declines the retry (strong fairness of UserSettles; *)
(* it also covers the return of the login POST and the answer to the retry *)
(* question).  The accepted answers of the service with status 200 and    *)
(* one form of the header, and the answer 'n', lead to every state that an *)
(* accepted login or a declined retry leads to.                            *)
(***************************************************************************)
Proceeds ==
    \/ Construct
    \/ /\ pc = "probing"
       /\ \E status \in Statuses, body \in Bodies : ProbeResponse(status, body)
    \/ \E username \in Usernames, password \in Passwords : Prompt(username, password)
    \/ SaveWrite

UserSettles ==
    \/ /\ pc = "authing" /\ pc' = "saving"
       /\ \E t \in Tokens, n \in UserNums, c \in Cookies :
             LoginResponse(200, [text |-> "json", access_token |-> t, id |-> n],
                           [present |-> TRUE,
                            value |-> <<"PHPSESSID=", c, ";", " Path=/", ";", " HttpOnly">>])
    \/ /\ pc = "retry" /\ pc' = "aborted"
       /\ RetryAnswer("n")

NextEstablish ==
    \/ Construct
    \/ \E status \in Statuses, body \in Bodies : ProbeResponse(status, body)
    \/ \E username \in Usernames, password \in Passwords : Prompt(username, password)
    \/ \E status \in Statuses, body \in AuthBodies, set_cookie \in SetCookies :
          LoginResponse(status, body, set_cookie)
    \/ SaveWrite
    \/ \E answer \in Answers : RetryAnswer(answer)
    \/ LoginRequiredCall
    \/ \E t \in Tokens : ServiceInvalidate(t)

SpecEstablish ==
    Init /\ [][NextEstablish]_vars /\ WF_vars(Proceeds) /\ SF_vars(UserSettles)

====
